---- MODULE Spec2Model ----
(***************************************************************************)
(* A model of promproxy's ProxyQuerier (pkg/proxyquerier/querier.go) and   *)
(* of the DebugAPI logging decorator (pkg/promclient/debug.go).            *)
(*                                                                         *)
(* Both types are stateless between calls: a ProxyQuerier holds only the   *)
(* window and the client fixed at construction, a DebugAPI only the        *)
(* wrapped API and its prefix.  A behaviour is therefore one construction  *)
(* (Init) followed by one exposed call; the call's inputs and the remote   *)
(* client's answer are drawn from bounded sets.  The call is one action:   *)
(* the handler runs from entry to return, the remote answer being the      *)
(* action's nondeterministic input.                                        *)
(*                                                                         *)
(* Go values are modelled as records so that values of different Go types  *)
(* stay comparable: an error is NoErr, a root error or a wrapping layer; a *)
(* slice keeps its nil-ness next to its elements; a model.Value carries    *)
(* its type tag.  storage.Warnings/api.Warnings are sequences (a nil and   *)
(* an empty warnings slice both have no element).                          *)
(***************************************************************************)
EXTENDS Integers, Sequences, FiniteSets, TLC

VARIABLES
    hStart,         \* ProxyQuerier.Start (a time.Time)
    hEnd,           \* ProxyQuerier.End (a time.Time)
    level,          \* logrus' global level, read by logrus.GetLevel()
    prefixMessage,  \* DebugAPI.PrefixMessage
    now,            \* the wall clock read by time.Now()
    op,             \* the exposed operation that was invoked ("none" before)
    args,           \* its arguments
    resp,           \* what the remote client answered to the call it received
    trace,          \* the remote calls, log records and adapter runs, in order
    ret             \* what the operation returned to its caller

vars == <<hStart, hEnd, level, prefixMessage, now, op, args, resp, trace, ret>>

----------------------------------------------------------------------------
(* Bounds of the model *)

MaxSeries == 2      \* elements of a Vector, a Matrix or a labelset list
MaxWarnings == 2    \* warnings attached to one remote answer
MaxMatchers == 2    \* matchers handed to one Select
MaxWrap == 2        \* layers of errors.Wrap around a root cause
MaxValues == 2      \* names or values in one LabelNames/LabelValues answer
MaxElapsed == 1     \* clock ticks one remote call may take

SeqsUpTo(S, n) == UNION {[1..k -> S] : k \in 0..n}

----------------------------------------------------------------------------
(* Go values *)

NilSlice == [isNil |-> TRUE, items |-> <<>>]

Slice(items) == [isNil |-> FALSE, items |-> items]

NoErr == [kind |-> "nil"]

RootErrors ==
    { [kind |-> "root", name |-> "server error"],
      [kind |-> "root", name |-> "context canceled"] }

Wrap(err, msg) == [kind |-> "wrap", msg |-> msg, inner |-> err]

RECURSIVE WrapN(_, _)
WrapN(err, n) == IF n = 0 THEN err ELSE Wrap(WrapN(err, n - 1), "ctx")

RemoteErrors == {WrapN(e, n) : e \in RootErrors, n \in 0..MaxWrap}

RECURSIVE Cause(_)
Cause(err) == IF err.kind = "wrap" THEN Cause(err.inner) ELSE err

(* Go's integer division and remainder truncate toward zero. *)
GoDiv(a, b) == IF a >= 0 THEN a \div b ELSE -((-a) \div b)

GoMod(a, b) == a - b * GoDiv(a, b)

(* time.Unix(sec, nsec): nsec is normalised into [0, 1e9). *)
TimeUnix(sec, nsec) ==
    [sec |-> sec + (nsec \div 1000000000), nsec |-> nsec % 1000000000]

(* timestamp.Time(t) = time.Unix(t/1000, (t%1000)*1e6), t in milliseconds. *)
TimestampTime(t) == TimeUnix(GoDiv(t, 1000), GoMod(t, 1000) * 1000000)

TimePool == {-1, 1500}

TimePairs == {p \in TimePool \X TimePool : p[1] <= p[2]}

----------------------------------------------------------------------------
(* Matchers, label sets and remote values *)

MatcherPool ==
    { [Name |-> <<"j", "o", "b">>, Type |-> "MatchEqual", Value |-> <<"a", "p", "i">>],
      [Name |-> <<"i">>, Type |-> "MatchNotRegexp", Value |-> <<"a", "\"">>],
      [Name |-> <<"x">>, Type |-> "MatchUnknown", Value |-> <<>>] }

MatcherLists == SeqsUpTo(MatcherPool, MaxMatchers) \ {<<>>}

SelectParamsSet ==
    {[present |-> FALSE]}
        \cup {[present |-> TRUE, Start |-> p[1], End |-> p[2]] : p \in TimePairs}

LabelSetA == [job |-> "api", instance |-> "a"]

LabelSetB == [job |-> "api", instance |-> "b"]

LabelSets == {LabelSetA, LabelSetB}

Point(t, v) == [Timestamp |-> t, Value |-> v]

Sample(metric, t, v) == [Metric |-> metric, Timestamp |-> t, Value |-> v]

SamplePool ==
    {Sample(LabelSetA, 0, 0), Sample(LabelSetA, 100, 7), Sample(LabelSetB, 100, 9)}

StreamPool ==
    { [Metric |-> LabelSetA, Values |-> <<Point(100, 1)>>],
      [Metric |-> LabelSetB, Values |-> <<Point(100, 1), Point(200, 2), Point(300, 3)>>] }

NilValue == [type |-> "nil"]

Vector(samples) == [type |-> "vector", samples |-> samples]

Matrix(streams) == [type |-> "matrix", streams |-> streams]

RemoteValues ==
    {Vector(s) : s \in SeqsUpTo(SamplePool, MaxSeries)}
        \cup {Matrix(s) : s \in SeqsUpTo(StreamPool, MaxSeries)}
        \cup { [type |-> "scalar", Timestamp |-> 100, Value |-> 7],
               [type |-> "string", Timestamp |-> 100, String |-> "s"] }

WarningLists == SeqsUpTo({"w1", "w2"}, MaxWarnings)

Response(v, w, err) == [v |-> v, w |-> w, err |-> err]

NoResponse == Response(NilValue, <<>>, NoErr)

(* What Client.GetValue may answer: a value, or an error next to nothing or
   to whatever was decoded before the failure; warnings in either case. *)
ValueResponses ==
    {Response(v, w, NoErr) : v \in RemoteValues, w \in WarningLists}
        \cup {Response(v, w, e) :
                v \in {NilValue, Vector(<<Sample(LabelSetA, 100, 7)>>)},
                w \in WarningLists, e \in RemoteErrors}

(* What Client.Series may answer. *)
SeriesResponses ==
    {Response(Slice(l), w, NoErr) : l \in SeqsUpTo(LabelSets, MaxSeries), w \in WarningLists}
        \cup {Response(v, w, e) :
                v \in {NilSlice, Slice(<<LabelSetA>>)}, w \in WarningLists, e \in RemoteErrors}

NameLists == {NilSlice} \cup {Slice(l) : l \in SeqsUpTo({"a", "b"}, MaxValues)}

(* What Client.LabelNames and Client.LabelValues may answer. *)
NamesResponses ==
    {Response(v, w, e) : v \in NameLists, w \in WarningLists, e \in {NoErr} \cup RemoteErrors}

----------------------------------------------------------------------------
(* promutil and promclient helpers the querier calls *)

OpString(type) ==
    CASE type = "MatchEqual" -> <<"=">>
      [] type = "MatchNotEqual" -> <<"!", "=">>
      [] type = "MatchRegexp" -> <<"=", "~">>
      [] type = "MatchNotRegexp" -> <<"!", "~">>

Representable(type) ==
    type \in {"MatchEqual", "MatchNotEqual", "MatchRegexp", "MatchNotRegexp"}

RECURSIVE Escape(_)
Escape(value) ==
    IF value = <<>> THEN <<>>
    ELSE (IF Head(value) = "\"" THEN <<"\\", "\"">> ELSE <<Head(value)>>)
            \o Escape(Tail(value))

MatcherString(m) ==
    m.Name \o OpString(m.Type) \o <<"\"">> \o Escape(m.Value) \o <<"\"">>

RECURSIVE JoinMatchers(_)
JoinMatchers(matchers) ==
    IF Len(matchers) = 1 THEN MatcherString(matchers[1])
    ELSE MatcherString(matchers[1]) \o <<",">> \o JoinMatchers(Tail(matchers))

TranslationError == [kind |-> "root", name |-> "translation error"]

(* promutil.MatcherToString: {name<op>"value",...}, or a translation error. *)
MatcherToString(matchers) ==
    IF \E i \in 1..Len(matchers) : ~Representable(matchers[i].Type)
    THEN [str |-> <<>>, err |-> TranslationError]
    ELSE [str |-> <<"{">> \o JoinMatchers(matchers) \o <<"}">>, err |-> NoErr]

(* promutil.WarningsConvert: each remote warning becomes one engine warning. *)
WarningsConvert(w) == [i \in 1..Len(w) |-> [kind |-> "root", name |-> w[i]]]

(* A Sample that carries label identity only: no usable timestamp or value. *)
IsSentinel(sample) == sample.Timestamp = 0 /\ sample.Value = 0

SampleIterator(sample) ==
    [labels |-> sample.Metric,
     points |-> IF IsSentinel(sample) THEN <<>>
                ELSE <<Point(sample.Timestamp, sample.Value)>>]

StreamIterator(stream) == [labels |-> stream.Metric, points |-> stream.Values]

(* A variant that answers an unknown shape with no iterator at all. *)
IteratorsForValueLenient(v) ==
    CASE v.type = "vector" ->
            [failed |-> FALSE,
             iterators |-> [i \in 1..Len(v.samples) |-> SampleIterator(v.samples[i])]]
      [] v.type = "matrix" ->
            [failed |-> FALSE,
             iterators |-> [i \in 1..Len(v.streams) |-> StreamIterator(v.streams[i])]]
      [] OTHER -> [failed |-> FALSE, iterators |-> <<>>]

(* promclient.IteratorsForValue: one iterator per Sample or SampleStream; a
   Scalar or a String is not representable.  The function returns the
   iterators alone, so its failure is a panic. *)
IteratorsForValue(v) ==
    CASE v.type = "vector" ->
            [failed |-> FALSE,
             iterators |-> [i \in 1..Len(v.samples) |-> SampleIterator(v.samples[i])]]
      [] v.type = "matrix" ->
            [failed |-> FALSE,
             iterators |-> [i \in 1..Len(v.streams) |-> StreamIterator(v.streams[i])]]
      [] OTHER -> [failed |-> TRUE, iterators |-> <<>>]

NewSeriesSet(series) == [isNil |-> FALSE, series |-> series]

NilSeriesSet == [isNil |-> TRUE, series |-> <<>>]

----------------------------------------------------------------------------
(* ProxyQuerier *)

CallEvent(api, a) == [ev |-> "call", api |-> api, args |-> a]

AdaptEvent(v) == [ev |-> "adapt", value |-> v]

Outcome(t, r) == [trace |-> t, ret |-> r]

SelectReturn(set, warnings, err) ==
    [kind |-> "return", set |-> set, warnings |-> warnings, err |-> err]

Panic(reason) == [kind |-> "panic", reason |-> reason]

(* A variant that hands the window over in the wrong order. *)
SelectSeriesCallSwapped(matcherString) ==
    CallEvent("Series",
              [matches |-> <<matcherString>>, startTime |-> hEnd, endTime |-> hStart])

(* querier.go:55: the discovery call, over the querier's own window. *)
SelectSeriesCall(matcherString) ==
    CallEvent("Series",
              [matches |-> <<matcherString>>, startTime |-> hStart, endTime |-> hEnd])

(* A variant that queries the querier's window instead of the request's. *)
SelectGetValueCallOwnWindow(selectParams, matchers) ==
    CallEvent("GetValue", [start |-> hStart, end |-> hEnd, matchers |-> matchers])

(* querier.go:71: the data call, over the request's window. *)
SelectGetValueCall(selectParams, matchers) ==
    CallEvent("GetValue",
              [start |-> TimestampTime(selectParams.Start),
               end |-> TimestampTime(selectParams.End),
               matchers |-> matchers])

(* querier.go:52-54: the translation failed; nothing was called. *)
SelectTranslationFailed(err) == Outcome(<<>>, SelectReturn(NilSeriesSet, <<>>, err))

(* A variant that returns early without the warnings. *)
SelectRemoteFailedNoWarnings(calls, warnings, err) ==
    Outcome(calls, SelectReturn(NilSeriesSet, <<>>, Cause(err)))

(* A variant that tries the call a second time before giving up. *)
SelectRemoteFailedRetry(calls, warnings, err) ==
    Outcome(calls \o calls, SelectReturn(NilSeriesSet, warnings, Cause(err)))

(* querier.go:57-59 and 74-76: the remote call failed. *)
SelectRemoteFailed(calls, warnings, err) ==
    Outcome(calls, SelectReturn(NilSeriesSet, warnings, Cause(err)))

(* A variant that stamps the synthesized Sample. *)
LabelsetSampleStamped(labelset) == Sample(labelset, 100, 0)

(* querier.go:64-66: a Sample with the labelset and nothing else set. *)
LabelsetSample(labelset) == Sample(labelset, 0, 0)

(* querier.go:62-68 *)
LabelsetsToVector(labelsets) ==
    Vector([j \in 1..Len(labelsets) |-> LabelsetSample(labelsets[j])])

(* A variant that fills the series from the back. *)
WrapIteratorsReversed(iterators) ==
    [i \in 1..Len(iterators) |-> [iterator |-> iterators[Len(iterators) + 1 - i]]]

(* querier.go:80-83 *)
WrapIterators(iterators) == [i \in 1..Len(iterators) |-> [iterator |-> iterators[i]]]

(* querier.go:78-85 *)
SelectAdapt(calls, result, warnings) ==
    LET its == IteratorsForValue(result) IN
    IF its.failed
    THEN Outcome(calls \o <<AdaptEvent(result)>>, Panic("unsupported value type"))
    ELSE Outcome(calls \o <<AdaptEvent(result)>>,
                 SelectReturn(NewSeriesSet(WrapIterators(its.iterators)), warnings, NoErr))

(* querier.go:50-68, once the matchers are translated *)
SelectMetadata(matcherString, r) ==
    LET calls == <<SelectSeriesCall(matcherString)>>
        warnings == WarningsConvert(r.w)
    IN  IF r.err # NoErr
        THEN SelectRemoteFailed(calls, warnings, r.err)
        ELSE SelectAdapt(calls, LabelsetsToVector(r.v.items), warnings)

(* querier.go:69-85 *)
SelectData(selectParams, matchers, r) ==
    LET calls == <<SelectGetValueCall(selectParams, matchers)>>
        warnings == WarningsConvert(r.w)
    IN  IF r.err # NoErr
        THEN SelectRemoteFailed(calls, warnings, r.err)
        ELSE SelectAdapt(calls, r.v, warnings)

Finish(name, a, r, out) ==
    /\ op' = name
    /\ args' = a
    /\ resp' = r
    /\ trace' = out.trace
    /\ ret' = out.ret

Select ==
    /\ op = "none"
    /\ \E selectParams \in SelectParamsSet, matchers \in MatcherLists :
         LET a == [selectParams |-> selectParams, matchers |-> matchers] IN
         IF ~selectParams.present
         THEN LET t == MatcherToString(matchers) IN
              IF t.err # NoErr
              THEN Finish("Select", a, NoResponse, SelectTranslationFailed(t.err))
              ELSE \E r \in SeriesResponses :
                     Finish("Select", a, r, SelectMetadata(t.str, r))
         ELSE \E r \in ValueResponses :
                Finish("Select", a, r, SelectData(selectParams, matchers, r))
    /\ UNCHANGED <<hStart, hEnd, level, prefixMessage, now>>

NamesReturn(values, warnings, err) ==
    [kind |-> "return", values |-> values, warnings |-> warnings, err |-> err]

(* querier.go:98-109 *)
LabelValuesResult(r) ==
    LET warnings == WarningsConvert(r.w) IN
    IF r.err # NoErr
    THEN NamesReturn(NilSlice, warnings, Cause(r.err))
    ELSE NamesReturn(Slice([i \in 1..Len(r.v.items) |-> r.v.items[i]]), warnings, NoErr)

LabelValues ==
    /\ op = "none"
    /\ \E name \in {"job", "instance"}, r \in NamesResponses :
         Finish("LabelValues", [name |-> name], r,
                Outcome(<<CallEvent("LabelValues", [label |-> name])>>, LabelValuesResult(r)))
    /\ UNCHANGED <<hStart, hEnd, level, prefixMessage, now>>

(* querier.go:121-122 *)
LabelNamesResult(r) == NamesReturn(r.v, WarningsConvert(r.w), r.err)

LabelNames ==
    /\ op = "none"
    /\ \E r \in NamesResponses :
         Finish("LabelNames", [none |-> TRUE], r,
                Outcome(<<CallEvent("LabelNames", [none |-> TRUE])>>, LabelNamesResult(r)))
    /\ UNCHANGED <<hStart, hEnd, level, prefixMessage, now>>

Close ==
    /\ op = "none"
    /\ Finish("Close", [none |-> TRUE], NoResponse,
              Outcome(<<>>, [kind |-> "return", err |-> NoErr]))
    /\ UNCHANGED <<hStart, hEnd, level, prefixMessage, now>>

----------------------------------------------------------------------------
(* DebugAPI *)

InfoLevel == 4

DebugLevel == 5

TraceLevel == 6

Levels == {InfoLevel, DebugLevel, TraceLevel}

(* What the wrapped API answers, and the clock ticks it took to answer. *)
Timed(R) ==
    {[v |-> r.v, w |-> r.w, err |-> r.err, dur |-> d] : r \in R, d \in 0..MaxElapsed}

LogRecord(lvl, fields) ==
    [ev |-> "log", level |-> lvl, msg |-> prefixMessage, fields |-> fields]

(* A variant that is verbose from the debug level on. *)
VerboseResultFromDebug(lvl) == lvl >= DebugLevel

(* debug.go:31: logrus.GetLevel() > logrus.DebugLevel *)
VerboseResult(lvl) == lvl > DebugLevel

(* debug.go:27-29: s := time.Now(); ...; time.Now().Sub(s) *)
Took(s, e) == e - s

(* debug.go:29-38: fields gains "took"; the result only when verbose. *)
AfterRecord(fields, took, r) ==
    LET timed == [took |-> took] @@ fields IN
    IF VerboseResult(level)
    THEN LogRecord(TraceLevel,
                   [value |-> r.v, warnings |-> r.w, error |-> r.err] @@ timed)
    ELSE LogRecord(DebugLevel, timed)

DebugReturn(r) == [kind |-> "return", v |-> r.v, w |-> r.w, err |-> r.err]

(* The body every DebugAPI method shares: log, forward, time, log, return. *)
DebugRun(fields, call, r) ==
    Outcome(<<LogRecord(DebugLevel, fields), call,
              AfterRecord(fields, Took(now, now + r.dur), r)>>,
            DebugReturn(r))

DebugFinish(name, a, r, out) ==
    /\ Finish(name, a, r, out)
    /\ now' = now + r.dur
    /\ UNCHANGED <<hStart, hEnd, level, prefixMessage>>

DebugLabelNames ==
    /\ op = "none"
    /\ \E r \in Timed(NamesResponses) :
         DebugFinish("LabelNames", [none |-> TRUE], r,
                     DebugRun([api |-> "LabelNames"],
                              CallEvent("LabelNames", [none |-> TRUE]), r))

DebugLabelValues ==
    /\ op = "none"
    /\ \E label \in {"job", "instance"}, r \in Timed(NamesResponses) :
         DebugFinish("LabelValues", [label |-> label], r,
                     DebugRun([api |-> "LabelValues", label |-> label],
                              CallEvent("LabelValues", [label |-> label]), r))

DebugQuery ==
    /\ op = "none"
    /\ \E query \in {"up"}, t \in TimePool, r \in Timed(ValueResponses) :
         LET ts == TimestampTime(t) IN
         DebugFinish("Query", [query |-> query, ts |-> ts], r,
                     DebugRun([api |-> "Query", query |-> query, ts |-> ts],
                              CallEvent("Query", [query |-> query, ts |-> ts]), r))

RangePool ==
    {[Start |-> TimestampTime(p[1]), End |-> TimestampTime(p[2]), Step |-> 15] :
        p \in TimePairs}

DebugQueryRange ==
    /\ op = "none"
    /\ \E query \in {"up"}, rng \in RangePool, r \in Timed(ValueResponses) :
         DebugFinish("QueryRange", [query |-> query, r |-> rng], r,
                     DebugRun([api |-> "QueryRange", query |-> query, r |-> rng],
                              CallEvent("QueryRange", [query |-> query, r |-> rng]), r))

SelectorLists == {<<>>, <<"{job=\"api\"}">>, <<"{job=\"api\"}", "{i!~\"a\"}">>}

DebugSeries ==
    /\ op = "none"
    /\ \E matches \in SelectorLists, p \in TimePairs, r \in Timed(SeriesResponses) :
         LET startTime == TimestampTime(p[1])
             endTime == TimestampTime(p[2])
         IN  DebugFinish("Series",
                         [matches |-> matches, startTime |-> startTime, endTime |-> endTime], r,
                         DebugRun([api |-> "Series", matches |-> matches,
                                   startTime |-> startTime, endTime |-> endTime],
                                  CallEvent("Series",
                                            [matches |-> matches, startTime |-> startTime,
                                             endTime |-> endTime]), r))

DebugGetValue ==
    /\ op = "none"
    /\ \E p \in TimePairs, matchers \in SeqsUpTo(MatcherPool, 1), r \in Timed(ValueResponses) :
         LET start == TimestampTime(p[1])
             end == TimestampTime(p[2])
         IN  DebugFinish("GetValue",
                         [start |-> start, end |-> end, matchers |-> matchers], r,
                         DebugRun([api |-> "GetValue", start |-> start, end |-> end,
                                   matchers |-> matchers],
                                  CallEvent("GetValue",
                                            [start |-> start, end |-> end,
                                             matchers |-> matchers]), r))

----------------------------------------------------------------------------
(* Specifications *)

Idle ==
    /\ op = "none"
    /\ args = [none |-> TRUE]
    /\ resp = NoResponse
    /\ trace = <<>>
    /\ ret = [kind |-> "none"]
    /\ now = 1000
    /\ prefixMessage = "promxy"

(* A querier built over any window; its calls go to the remote client. *)
Init ==
    /\ \E p \in TimePairs :
         /\ hStart = TimestampTime(p[1])
         /\ hEnd = TimestampTime(p[2])
    /\ level = InfoLevel
    /\ Idle

Next == Select \/ LabelValues \/ LabelNames \/ Close

Spec == Init /\ [][Next]_vars

(* A DebugAPI around the remote client, under any logrus level. *)
DebugInit ==
    /\ hStart = TimestampTime(0)
    /\ hEnd = TimestampTime(0)
    /\ level \in Levels
    /\ Idle

DebugNext ==
    \/ DebugLabelNames
    \/ DebugLabelValues
    \/ DebugQuery
    \/ DebugQueryRange
    \/ DebugSeries
    \/ DebugGetValue

DebugSpec == DebugInit /\ [][DebugNext]_vars

----------------------------------------------------------------------------
(* Properties *)

RemoteCalls == SelectSeq(trace, LAMBDA e : e.ev = "call")

AdapterRuns == SelectSeq(trace, LAMBDA e : e.ev = "adapt")

(* The instant a time.Time denotes, in milliseconds since the epoch. *)
UnixMilli(t) == t.sec * 1000 + t.nsec \div 1000000

WholeMillis(t) == t.nsec \in 0..999999999 /\ t.nsec % 1000000 = 0

Returned == ret.kind = "return"

ReachedRemote == op \in {"Select", "LabelValues", "LabelNames"} /\ Len(RemoteCalls) > 0

OnDataPath == op = "Select" /\ args.selectParams.present

OnMetadataPath == op = "Select" /\ ~args.selectParams.present

(* C1: a Select with a SelectRequest makes exactly one remote call, GetValue,
   with the request's own start and end and the caller's matchers; Series is
   not called and the querier's Start/End are not what is passed. *)
DataPathCallsGetValueWithRequestWindow ==
    OnDataPath =>
        /\ Len(RemoteCalls) = 1
        /\ RemoteCalls[1].api = "GetValue"
        /\ DOMAIN RemoteCalls[1].args = {"start", "end", "matchers"}
        /\ WholeMillis(RemoteCalls[1].args.start)
        /\ UnixMilli(RemoteCalls[1].args.start) = args.selectParams.Start
        /\ WholeMillis(RemoteCalls[1].args.end)
        /\ UnixMilli(RemoteCalls[1].args.end) = args.selectParams.End
        /\ RemoteCalls[1].args.matchers = args.matchers

DataPathWitness ==
    /\ OnDataPath
    /\ Len(args.matchers) = 2
    /\ UnixMilli(hStart) # args.selectParams.Start
    /\ UnixMilli(hEnd) # args.selectParams.End
    /\ Len(RemoteCalls) = 1

(* C2: a Select without a SelectRequest whose matchers translate makes
   exactly one remote call, Series, with the one translated selector and the
   querier's construction-time Start and End; GetValue is not called. *)
MetadataPathCallsSeriesWithQuerierWindow ==
    (OnMetadataPath /\ MatcherToString(args.matchers).err = NoErr) =>
        /\ Len(RemoteCalls) = 1
        /\ RemoteCalls[1].api = "Series"
        /\ RemoteCalls[1].args.matches = <<MatcherToString(args.matchers).str>>
        /\ RemoteCalls[1].args.startTime = hStart
        /\ RemoteCalls[1].args.endTime = hEnd

MetadataPathWitness ==
    /\ OnMetadataPath
    /\ Len(args.matchers) = 2
    /\ hStart # hEnd
    /\ Len(RemoteCalls) = 1
    /\ RemoteCalls[1].args.matches
         = <<<<"{", "j", "o", "b", "=", "\"", "a", "p", "i", "\"", ",",
               "i", "!", "~", "\"", "a", "\\", "\"", "\"", "}">>>>

(* C3: an operation that reached the remote client returns exactly the
   warnings the remote call returned, same count and order, whether or not
   the remote call failed. *)
WarningsPassedThrough ==
    (ReachedRemote /\ Returned) =>
        /\ Len(ret.warnings) = Len(resp.w)
        /\ \A i \in 1..Len(resp.w) : ret.warnings[i].name = resp.w[i]

WarningsWithErrorWitness ==
    /\ op = "Select"
    /\ Returned
    /\ resp.err # NoErr
    /\ Len(resp.w) = 2
    /\ resp.w[1] # resp.w[2]
    /\ Len(ret.warnings) = 2

(* C4: whenever the remote client returns an error wrapping a root cause,
   every exposed operation returns exactly that root cause. *)
ErrorReturnedIsRootCause ==
    (ReachedRemote /\ resp.err # NoErr) =>
        /\ Returned
        /\ ret.err.kind = "root"
        /\ ret.err = Cause(resp.err)

(* C5: a Scalar or String handed to the result adapter makes Select fail
   instead of returning a SeriesSet with a nil error. *)
UnsupportedShapeFails ==
    (op = "Select"
        /\ \E i \in 1..Len(AdapterRuns) : AdapterRuns[i].value.type \in {"scalar", "string"})
      => ret.kind = "panic"

UnsupportedShapeWitness ==
    /\ OnDataPath
    /\ resp.err = NoErr
    /\ resp.v.type = "string"
    /\ Len(AdapterRuns) = 1
    /\ ~Returned

(* C6: on the metadata path every Series of the result has an empty
   iterator: no point, and no zero-valued sentinel point, is yielded. *)
MetadataSeriesAreEmpty ==
    (OnMetadataPath /\ Returned) =>
        \A i \in 1..Len(ret.set.series) : ret.set.series[i].iterator.points = <<>>

MetadataSeriesWitness ==
    /\ OnMetadataPath
    /\ Returned
    /\ Len(resp.v.items) = 2
    /\ Len(ret.set.series) = 2

RemoteElements ==
    IF OnMetadataPath THEN resp.v.items
    ELSE IF resp.v.type = "vector"
         THEN [i \in 1..Len(resp.v.samples) |-> resp.v.samples[i].Metric]
         ELSE [i \in 1..Len(resp.v.streams) |-> resp.v.streams[i].Metric]

(* C7: a successful Select returns one Series per element of the remote
   result, the i-th Series carrying the i-th element's labelset. *)
SeriesMirrorRemoteOrder ==
    (op = "Select" /\ Returned /\ ret.err = NoErr) =>
        /\ ~ret.set.isNil
        /\ Len(ret.set.series) = Len(RemoteElements)
        /\ \A i \in 1..Len(RemoteElements) :
             ret.set.series[i].iterator.labels = RemoteElements[i]

SeriesOrderWitness ==
    /\ OnDataPath
    /\ Returned
    /\ resp.v.type = "matrix"
    /\ Len(ret.set.series) = 2
    /\ ret.set.series[1].iterator.labels = LabelSetB
    /\ ret.set.series[2].iterator.labels = LabelSetA

(* C8: a Select that returns a non-nil error returns a nil SeriesSet, runs
   no adaptation and makes no remote call after the step that failed. *)
SelectErrorReturnsNothing ==
    (op = "Select" /\ Returned /\ ret.err # NoErr) =>
        /\ ret.set.isNil
        /\ AdapterRuns = <<>>
        /\ trace = RemoteCalls
        /\ Len(RemoteCalls) = (IF resp.err # NoErr THEN 1 ELSE 0)

SelectErrorWitness ==
    /\ OnDataPath
    /\ Returned
    /\ resp.err.kind = "wrap"
    /\ resp.v # NilValue
    /\ ret.set.isNil

(* C9: LabelValues and LabelNames return no result list when the remote
   call returned an error next to a non-empty partial list. *)
NoPartialNamesOnError ==
    (op \in {"LabelValues", "LabelNames"} /\ ReachedRemote
        /\ resp.err # NoErr /\ Len(resp.v.items) > 0)
      => (Returned /\ ret.values.isNil /\ ret.values.items = <<>>)

ResultFields == {"value", "warnings", "error"}

(* C10: one decorated invocation logs the operation and its parameters,
   forwards the call once with the caller's arguments, logs the elapsed
   time, with value, warnings and error only at the highest level, and
   returns the wrapped call's triple unchanged. *)
DecoratorIsTransparent ==
    op # "none" =>
        /\ Len(trace) = 3
        /\ trace[1].ev = "log"
        /\ trace[1].fields = ([api |-> op] @@ (IF args = [none |-> TRUE] THEN <<>> ELSE args))
        /\ trace[2] = [ev |-> "call", api |-> op, args |-> args]
        /\ trace[3].ev = "log"
        /\ trace[3].fields.took = resp.dur
        /\ \A k \in DOMAIN trace[1].fields : trace[3].fields[k] = trace[1].fields[k]
        /\ IF level = TraceLevel
           THEN /\ DOMAIN trace[3].fields = DOMAIN trace[1].fields \cup {"took"} \cup ResultFields
                /\ trace[3].fields.value = resp.v
                /\ trace[3].fields.warnings = resp.w
                /\ trace[3].fields.error = resp.err
           ELSE DOMAIN trace[3].fields = DOMAIN trace[1].fields \cup {"took"}
        /\ ret = [kind |-> "return", v |-> resp.v, w |-> resp.w, err |-> resp.err]

DecoratorWitness ==
    /\ op = "GetValue"
    /\ level = DebugLevel
    /\ resp.err # NoErr
    /\ resp.dur > 0
    /\ Len(args.matchers) = 1
    /\ Len(trace) = 3
    /\ ret.err = resp.err

====
